---- MODULE Spec2Model ----
(***************************************************************************)
(* XT keyboard adapter (xt-keyboard-adapter.ino).                          *)
(*                                                                         *)
(* clock_isr() runs on every falling edge of the keyboard clock, shifts    *)
(* the data pin into a 10-bit frame and publishes it in c_data / ctr.      *)
(* loop() busy-waits for ctr to change, decodes c_data and drives the USB  *)
(* keyboard.  clock_isr preempts loop() between any two of its accesses to *)
(* the volatile variables; loop() never preempts clock_isr.                *)
(*                                                                         *)
(* Every statement of loop() that reads or writes a volatile variable is   *)
(* one action (c_data = c_data & 0xffe is a load and a store, hence two).  *)
(* clock_isr is four actions that run to completion: while isr_pc is not   *)
(* "idle" no action of loop() is enabled.                                  *)
(***************************************************************************)
EXTENDS Integers, Sequences, FiniteSets, TLC

\* ---------------------------------------------------------------- bounds
\* Number of clock edges the keyboard produces after power-on.
MaxEdges == 20
\* Number of clock edges the keyboard produces in the runs of one frame
\* (InitHeld, InitAny, InitDup).
HeldEdges == 10

\* ------------------------------------------------------ program constants
\* int is 32 bits wide on the target (uint32_t r_len, led_pin 13): INT_MAX.
IntMax == 2147483647
\* Bits per frame: if (r_len == 10).
FrameBits == 10
\* Width mask of uint16_t data.
Uint16 == 65536
\* The literal 0xffe of loop().
ScanMask == 4094
\* curr_mod & 0xff, and the width of uint8_t keyname.
ByteMask == 255

HIGH == TRUE
LOW == FALSE

\* The mapping of the old keyboard's keycodes to the modern keycodes.  n is
\* the low byte of the KEY_* constant of usb_keyboard.h (the HID usage),
\* which is all that uint8_t keyname keeps of it.
xt_kb_map == <<
    [old |-> 258, n |-> 63],  \* [0] {0x102, KEY_F6}
    [old |-> 260, n |-> 7],  \* [1] {0x104, KEY_D}
    [old |-> 264, n |-> 20],  \* [2] {0x108, KEY_Q}
    [old |-> 266, n |-> 90],  \* [3] {0x10A, KEYPAD_2}
    [old |-> 268, n |-> 5],  \* [4] {0x10C, KEY_B}
    [old |-> 272, n |-> 36],  \* [5] {0x110, KEY_7}
    [old |-> 274, n |-> 96],  \* [6] {0x112, KEYPAD_8}
    [old |-> 276, n |-> 52],  \* [7] {0x114, KEY_QUOTE}
    [old |-> 280, n |-> 18],  \* [8] {0x118, KEY_O}
    [old |-> 288, n |-> 32],  \* [9] {0x120, KEY_3}
    [old |-> 290, n |-> 67],  \* [10] {0x122, KEY_F10}
    [old |-> 292, n |-> 13],  \* [11] {0x124, KEY_J}
    [old |-> 296, n |-> 23],  \* [12] {0x128, KEY_T}
    [old |-> 300, n |-> 55],  \* [13] {0x12C, KEY_PERIOD}
    [old |-> 304, n |-> 45],  \* [14] {0x130, KEY_MINUS}
    [old |-> 306, n |-> 93],  \* [15] {0x132, KEYPAD_5}
    [old |-> 308, n |-> 29],  \* [16] {0x134, KEY_Z}
    [old |-> 312, n |-> 40],  \* [17] {0x138, KEY_ENTER}
    [old |-> 316, n |-> 59],  \* [18] {0x13C, KEY_F2}
    [old |-> 320, n |-> 30],  \* [19] {0x140, KEY_1}
    [old |-> 322, n |-> 65],  \* [20] {0x142, KEY_F8}
    [old |-> 324, n |-> 10],  \* [21] {0x144, KEY_G}
    [old |-> 328, n |-> 8],  \* [22] {0x148, KEY_E}
    [old |-> 330, n |-> 98],  \* [23] {0x14A, KEYPAD_0}
    [old |-> 332, n |-> 16],  \* [24] {0x14C, KEY_M}
    [old |-> 336, n |-> 38],  \* [25] {0x150, KEY_9}
    [old |-> 338, n |-> 86],  \* [26] {0x152, KEYPAD_MINUS}
    [old |-> 344, n |-> 47],  \* [27] {0x158, KEY_LEFT_BRACE}
    [old |-> 348, n |-> 57],  \* [28] {0x15C, KEY_CAPS_LOCK}
    [old |-> 352, n |-> 34],  \* [29] {0x160, KEY_5}
    [old |-> 354, n |-> 71],  \* [30] {0x162, KEY_SCROLL_LOCK}
    [old |-> 356, n |-> 15],  \* [31] {0x164, KEY_L}
    [old |-> 360, n |-> 24],  \* [32] {0x168, KEY_U}
    [old |-> 368, n |-> 42],  \* [33] {0x170, KEY_BACKSPACE}
    [old |-> 370, n |-> 87],  \* [34] {0x172, KEYPAD_PLUS}
    [old |-> 372, n |-> 6],  \* [35] {0x174, KEY_C}
    [old |-> 376, n |-> 4],  \* [36] {0x178, KEY_A}
    [old |-> 380, n |-> 61],  \* [37] {0x17C, KEY_F4}
    [old |-> 384, n |-> 41],  \* [38] {0x180, KEY_ESC}
    [old |-> 386, n |-> 64],  \* [39] {0x182, KEY_F7}
    [old |-> 388, n |-> 9],  \* [40] {0x184, KEY_F}
    [old |-> 392, n |-> 26],  \* [41] {0x188, KEY_W}
    [old |-> 394, n |-> 91],  \* [42] {0x18A, KEYPAD_3}
    [old |-> 396, n |-> 17],  \* [43] {0x18C, KEY_N}
    [old |-> 400, n |-> 37],  \* [44] {0x190, KEY_8}
    [old |-> 402, n |-> 97],  \* [45] {0x192, KEYPAD_9}
    [old |-> 404, n |-> 49],  \* [46] {0x194, KEY_BACKSLASH}
    [old |-> 408, n |-> 19],  \* [47] {0x198, KEY_P}
    [old |-> 412, n |-> 44],  \* [48] {0x19C, KEY_SPACE}
    [old |-> 416, n |-> 33],  \* [49] {0x1A0, KEY_4}
    [old |-> 418, n |-> 83],  \* [50] {0x1A2, KEY_NUM_LOCK}
    [old |-> 420, n |-> 14],  \* [51] {0x1A4, KEY_K}
    [old |-> 424, n |-> 28],  \* [52] {0x1A8, KEY_Y}
    [old |-> 428, n |-> 56],  \* [53] {0x1AC, KEY_SLASH}
    [old |-> 432, n |-> 46],  \* [54] {0x1B0, KEY_EQUAL}
    [old |-> 434, n |-> 94],  \* [55] {0x1B2, KEYPAD_6}
    [old |-> 436, n |-> 27],  \* [56] {0x1B4, KEY_X}
    [old |-> 444, n |-> 60],  \* [57] {0x1BC, KEY_F3}
    [old |-> 448, n |-> 31],  \* [58] {0x1C0, KEY_2}
    [old |-> 450, n |-> 66],  \* [59] {0x1C2, KEY_F9}
    [old |-> 452, n |-> 11],  \* [60] {0x1C4, KEY_H}
    [old |-> 456, n |-> 21],  \* [61] {0x1C8, KEY_R}
    [old |-> 458, n |-> 99],  \* [62] {0x1CA, KEYPAD_PERIOD}
    [old |-> 460, n |-> 54],  \* [63] {0x1CC, KEY_COMMA}
    [old |-> 464, n |-> 39],  \* [64] {0x1D0, KEY_0}
    [old |-> 466, n |-> 92],  \* [65] {0x1D2, KEYPAD_4}
    [old |-> 468, n |-> 0],  \* [66] {0x1D4, 0}
    [old |-> 472, n |-> 48],  \* [67] {0x1D8, KEY_RIGHT_BRACE}
    [old |-> 476, n |-> 58],  \* [68] {0x1DC, KEY_F1}
    [old |-> 480, n |-> 35],  \* [69] {0x1E0, KEY_6}
    [old |-> 482, n |-> 95],  \* [70] {0x1E2, KEYPAD_7}
    [old |-> 484, n |-> 51],  \* [71] {0x1E4, KEY_SEMICOLON}
    [old |-> 488, n |-> 12],  \* [72] {0x1E8, KEY_I}
    [old |-> 492, n |-> 70],  \* [73] {0x1EC, KEY_PRINTSCREEN}
    [old |-> 496, n |-> 43],  \* [74] {0x1F0, KEY_TAB}
    [old |-> 498, n |-> 89],  \* [75] {0x1F2, KEYPAD_1}
    [old |-> 500, n |-> 25],  \* [76] {0x1F4, KEY_V}
    [old |-> 504, n |-> 22],  \* [77] {0x1F8, KEY_S}
    [old |-> 508, n |-> 62]   \* [78] {0x1FC, KEY_F5}
>>

\* The mapping of the old keyboard's modifier keycodes.  n is the low byte
\* of the MODIFIERKEY_* constant (the bit of the HID modifier byte), which
\* is all that set_modifier(curr_mod & 0xff) sends of it.
xt_kb_modmap == <<
    [old |-> 284, n |-> 4],  \* [0] {0x11C, MODIFIERKEY_LEFT_ALT}
    [old |-> 364, n |-> 32],  \* [1] {0x16C, MODIFIERKEY_RIGHT_SHIFT}
    [old |-> 440, n |-> 1],  \* [2] {0x1B8, MODIFIERKEY_LEFT_CTRL}
    [old |-> 340, n |-> 2]   \* [3] {0x154, MODIFIERKEY_LEFT_SHIFT}
>>

\* Tables with a scan code listed twice, as a build could have them: left
\* ctrl (0x1B8) as ctrl and again as shift, KEY_A (0x178) as A and again as B.
dup_kb_modmap == <<
    [old |-> 440, n |-> 1],
    [old |-> 340, n |-> 2],
    [old |-> 440, n |-> 2]
>>
dup_kb_map == <<
    [old |-> 260, n |-> 7],
    [old |-> 376, n |-> 4],
    [old |-> 376, n |-> 5]
>>

\* ------------------------------------------------------------ arithmetic
RECURSIVE BitAnd(_, _)
BitAnd(a, b) ==
    IF a = 0 \/ b = 0 THEN 0
    ELSE (a % 2) * (b % 2) + 2 * BitAnd(a \div 2, b \div 2)

RECURSIVE BitOr(_, _)
BitOr(a, b) ==
    IF a = 0 THEN b
    ELSE IF b = 0 THEN a
    ELSE (IF a % 2 = 1 \/ b % 2 = 1 THEN 1 ELSE 0) + 2 * BitOr(a \div 2, b \div 2)

\* ~n within the byte that is kept of curr_mod.
BitNot8(n) == ByteMask - BitAnd(n, ByteMask)

\* ------------------------------------------------- the code's expressions
\* ShiftIn with its two statements in the other order.
ShiftInSwapped(d, pin) == (BitOr(d, BitAnd(pin, 1)) * 2) % Uint16

\* data <<= 1; data |= pin & 1;   (uint16_t data)
ShiftIn(d, pin) == BitOr((d * 2) % Uint16, BitAnd(pin, 1))

\* FirstBit with r_len compared to 2.
FirstBitLate(len) == len = 2

\* if (r_len == 1)
FirstBit(len) == len = 1

\* FrameDone with r_len compared to 11.
FrameDoneLate(len) == len = FrameBits + 1

\* if (r_len == 10)
FrameDone(len) == len = FrameBits

\* FrameBody with ctr++ before c_data = data.
FrameBodySwapped == <<"L52", "L51", "L53">>

\* The statements of the body of if (r_len == 10), in program order:
\* c_data = data; ctr++; then data = 0; r_len = 0; digitalWrite(LOW).
FrameBody == <<"L51", "L52", "L53">>

\* The statement clock_isr runs after `at`; "idle" when it returns.
IsrAfter(at) ==
    LET k == CHOOSE j \in 1..Len(FrameBody) : FrameBody[j] = at
    IN  IF k = Len(FrameBody) THEN "idle" ELSE FrameBody[k + 1]

\* ctr++ on a 32-bit int: past INT_MAX the value wraps to INT_MIN.
IntInc(x) == IF x = IntMax THEN (-IntMax) - 1 ELSE x + 1

\* CounterChanged for a wait that only accepts the next counter value.
CounterChangedByOne(last, now) == now = last + 1

\* The busy-wait while (cctr == ctr); is left when this holds.
CounterChanged(last, now) == last # now

\* bool release = c_data & 1;
Released(frame) == BitAnd(frame, 1) # 0

\* ScanCode with the mask 0xffc.
ScanCodeFFC(frame) == BitAnd(frame, ScanMask - 2)

\* c_data & 0xffe
ScanCode(frame) == BitAnd(frame, ScanMask)

\* ModUpdate with = in place of |=.
ModUpdateAssign(mod, rel, n) ==
    IF rel THEN BitAnd(mod, BitNot8(n)) ELSE n

\* if (release) curr_mod &= ~n; else curr_mod |= n;
ModUpdate(mod, rel, n) ==
    IF rel THEN BitAnd(mod, BitNot8(n)) ELSE BitOr(mod, n)

\* Keyboard.send_now(): the report the host receives.
Report(m, k) == [mod |-> m, key |-> k]

\* ----------------------------------------------------------- the keyboard
\* The frames the keyboard can send: the four modifiers pressed and
\* released, a mapped key (0x178, KEY_A) pressed and released, the key
\* mapped to 0 (0x1D4), and a code in neither table (0x3FE).
ModFrames == { 284, 285, 364, 365, 440, 441, 340, 341 }
Frames == ModFrames \cup { 376, 377, 468, 1022 }

RECURSIVE Pow2(_)
Pow2(k) == IF k = 0 THEN 1 ELSE 2 * Pow2(k - 1)

\* The samples of a frame on the data line, one per clock edge, most
\* significant bit first.
Samples(f) == [k \in 1..FrameBits |-> (f \div Pow2(FrameBits - k)) % 2]

\* What the line can have carried since the current frame began.
LinePrefixes ==
    { SubSeq(Samples(f), 1, k) : f \in Frames, k \in 1..FrameBits }

\* Every sequence of one to ten samples: a keyboard, or a noisy line, that
\* can send any frame.
AnyPrefixes == UNION { [1..k -> {0, 1}] : k \in 1..FrameBits }

\* The modifier bytes loop() can have built: the subsets of the four flags.
ModStates ==
    { BitOr(BitOr(a, b), BitOr(c, d)) :
        a \in {0, 4}, b \in {0, 32}, c \in {0, 1}, d \in {0, 2} }

VARIABLES
    \* clock_isr
    r_len,      \* static uint32_t r_len
    data,       \* static uint16_t data
    led,        \* led_pin
    isr_pc,     \* "idle", or the statement of clock_isr that runs next
    \* shared
    ctr,        \* volatile int ctr
    c_data,     \* volatile unsigned int c_data
    \* loop
    pc,         \* the statement of loop() that runs next
    cctr,       \* static int cctr
    release,    \* bool release
    i,          \* size_t i of the two for loops
    tmp,        \* the register holding c_data & 0xffe between load and store
    keyname,    \* uint8_t keyname
    curr_mod,   \* KEYCODE_TYPE curr_mod (its low byte)
    \* Keyboard
    kb_mod,     \* the modifier byte set_modifier() stored
    kb_key1,    \* the key slot set_key1() stored
    host,       \* the last report send_now() delivered
    \* the keyboard and its cable
    line,       \* the samples of the current frame already clocked out
    budget,     \* the clock edges still to come
    keys,       \* "mixed": the keyboard sends Frames; "any": any ten samples
    tables,     \* "shipped": xt_kb_map and xt_kb_modmap; "dup": the dup_ tables
    \* history
    hist,       \* every sample clock_isr has read
    pubs,       \* every value clock_isr has stored in c_data
    incs,       \* how many times clock_isr has incremented ctr
    c_src,      \* the index in pubs of the frame c_data's value comes from
    tmp_src,    \* the same for tmp
    key_src,    \* the same for keyname
    cseq,       \* the value of incs when cctr = ctr last ran
    seen,       \* every value cseq has had
    used,       \* the frames (indices in pubs) this pass has read
    vals,       \* the values of c_data this pass has read
    decoded,    \* decoded[k]: how many passes have read frame k
    taps,       \* taps[k]: how many key presses were sent for frame k
    passes,     \* how many passes have returned
    mod_before, \* curr_mod when this pass left the busy-wait
    calls       \* the Keyboard calls of this pass

isr_vars == <<r_len, data, led, isr_pc>>
shared_vars == <<ctr, c_data>>
loop_vars == <<pc, cctr, release, i, tmp, keyname, curr_mod>>
usb_vars == <<kb_mod, kb_key1, host>>
kbd_vars == <<line, budget>>
rig_vars == <<keys, tables>>
hist_vars == <<hist, pubs, incs, c_src, tmp_src, key_src, cseq, seen, used,
               vals, decoded, taps, passes, mod_before, calls>>
vars == <<isr_vars, shared_vars, loop_vars, usb_vars, kbd_vars, rig_vars,
          hist_vars>>

\* Map with left ctrl (0x1B8) also listed as a regular key.
MapWithCtrl == <<[old |-> 440, n |-> 224]>> \o xt_kb_map

\* The tables this build was compiled with.
ModMap == IF tables = "dup" THEN dup_kb_modmap ELSE xt_kb_modmap
Map == IF tables = "dup" THEN dup_kb_map ELSE xt_kb_map

\* sizeof xt_kb_modmap / sizeof xt_kb_modmap[0]
ModMapLen == Len(ModMap)
\* sizeof xt_kb_map / sizeof xt_kb_map[0]
MapLen == Len(Map)

\* What the line can have carried since the current frame began, for the
\* keyboard that is attached.
Line == IF keys = "any" THEN AnyPrefixes ELSE LinePrefixes

\* ------------------------------------------------------------------ Init
\* The state the initialisers and setup() leave, with `held` in curr_mod,
\* `start` in ctr and cctr, and `edges` clock edges to come, for keyboard k
\* and tables t.
BootWith(held, start, edges, k, t) ==
    /\ keys = k /\ tables = t
    /\ r_len = 0 /\ data = 0 /\ led = LOW /\ isr_pc = "idle"
    /\ ctr = start /\ c_data = 0
    /\ pc = "L77" /\ cctr = start /\ release = FALSE /\ i = 0 /\ tmp = 0
    /\ keyname = 0 /\ curr_mod = held
    /\ kb_mod = held /\ kb_key1 = 0 /\ host = Report(held, 0)
    /\ line = <<>> /\ budget = edges
    /\ hist = <<>> /\ pubs = <<>> /\ incs = 0
    /\ c_src = 0 /\ tmp_src = 0 /\ key_src = 0 /\ cseq = 0 /\ seen = {}
    /\ used = {} /\ vals = {} /\ decoded = <<>> /\ taps = <<>> /\ passes = 0
    /\ mod_before = held /\ calls = <<>>

\* The same for the keyboard that sends Frames and the shipped tables.
Boot(held, start, edges) == BootWith(held, start, edges, "mixed", "shipped")

\* Power-on.
Init == Boot(0, 0, MaxEdges)

\* loop() waiting with any set of modifiers held down by earlier frames.
InitHeld == \E held \in ModStates : Boot(held, 0, HeldEdges)

\* loop() waiting after INT_MAX - 1 frames have been published and seen.
InitWrap == Boot(0, IntMax - 1, MaxEdges)

\* loop() waiting with no modifier, left ctrl and alt, both shifts, or every
\* modifier held, and a line that can carry any ten samples.
InitAny ==
    \E held \in {0, 5, 34, 39} : BootWith(held, 0, HeldEdges, "any", "shipped")

\* loop() waiting with any set of modifiers held, in the shipped build and
\* in a build whose tables list a scan code twice.
InitDup ==
    \E held \in ModStates, t \in {"shipped", "dup"} :
        BootWith(held, 0, HeldEdges, "mixed", t)

\* ------------------------------------------------------------- clock_isr
\* Lines 44-50: sample the data pin, shift it in, count it.  The keyboard
\* drives the line so that the ten samples of a frame spell one of Frames.
ClockEdge ==
    /\ isr_pc = "idle"
    /\ budget > 0
    /\ \E pin \in {0, 1} :
         LET s == Append(line, pin) IN
         /\ s \in Line
         /\ line' = IF Len(s) = FrameBits THEN <<>> ELSE s
         /\ data' = ShiftIn(data, pin)
         /\ hist' = Append(hist, pin)
    /\ budget' = budget - 1
    /\ r_len' = r_len + 1
    /\ led' = IF FirstBit(r_len') THEN HIGH ELSE led
    /\ isr_pc' = IF FrameDone(r_len') THEN FrameBody[1] ELSE "idle"
    /\ UNCHANGED <<shared_vars, loop_vars, usb_vars, rig_vars>>
    /\ UNCHANGED <<pubs, incs, c_src, tmp_src, key_src, cseq, seen, used, vals,
                   decoded, taps, passes, mod_before, calls>>

\* Line 51: c_data = data;
IsrPublish ==
    /\ isr_pc = "L51"
    /\ c_data' = data
    /\ pubs' = Append(pubs, data)
    /\ c_src' = Len(pubs) + 1
    /\ decoded' = Append(decoded, 0)
    /\ taps' = Append(taps, 0)
    /\ isr_pc' = IsrAfter("L51")
    /\ UNCHANGED <<r_len, data, led, ctr, loop_vars, usb_vars, kbd_vars, rig_vars>>
    /\ UNCHANGED <<hist, incs, tmp_src, key_src, cseq, seen, used, vals,
                   passes, mod_before, calls>>

\* Line 52: ctr++;
IsrCount ==
    /\ isr_pc = "L52"
    /\ ctr' = IntInc(ctr)
    /\ incs' = incs + 1
    /\ isr_pc' = IsrAfter("L52")
    /\ UNCHANGED <<r_len, data, led, c_data, loop_vars, usb_vars, kbd_vars, rig_vars>>
    /\ UNCHANGED <<hist, pubs, c_src, tmp_src, key_src, cseq, seen, used, vals,
                   decoded, taps, passes, mod_before, calls>>

\* Lines 53-55: data = 0; r_len = 0; digitalWrite(led_pin, LOW);
IsrReset ==
    /\ isr_pc = "L53"
    /\ data' = 0
    /\ r_len' = 0
    /\ led' = LOW
    /\ isr_pc' = IsrAfter("L53")
    /\ UNCHANGED <<shared_vars, loop_vars, usb_vars, kbd_vars, rig_vars, hist_vars>>

Isr == ClockEdge \/ IsrPublish \/ IsrCount \/ IsrReset

\* ------------------------------------------------------------------ loop
\* A load of c_data by the pass: which frame, and which value, it saw.
ReadsFrame ==
    /\ used' = used \cup {c_src}
    /\ vals' = vals \cup {c_data}
    /\ decoded' = IF c_src \in used \/ c_src = 0 THEN decoded
                  ELSE [decoded EXCEPT ![c_src] = @ + 1]

\* Line 77: while (cctr == ctr);
Wait ==
    /\ isr_pc = "idle" /\ pc = "L77"
    /\ pc' = IF CounterChanged(cctr, ctr) THEN "L79" ELSE "L77"
    /\ UNCHANGED <<isr_vars, shared_vars, usb_vars, kbd_vars, rig_vars, hist_vars>>
    /\ UNCHANGED <<cctr, release, i, tmp, keyname, curr_mod>>

\* StoreCounter taking the count instead of copying it: ctr is cleared.
StoreCounterClears ==
    /\ isr_pc = "idle" /\ pc = "L79"
    /\ cctr' = ctr
    /\ ctr' = 0
    /\ cseq' = incs
    /\ seen' = seen \cup {incs}
    /\ pc' = "L81"
    /\ UNCHANGED <<isr_vars, c_data, usb_vars, kbd_vars, rig_vars>>
    /\ UNCHANGED <<release, i, tmp, keyname, curr_mod>>
    /\ UNCHANGED <<hist, pubs, incs, c_src, tmp_src, key_src, used, vals,
                   decoded, taps, passes, mod_before, calls>>

\* Line 79: cctr = ctr;
StoreCounter ==
    /\ isr_pc = "idle" /\ pc = "L79"
    /\ cctr' = ctr
    /\ cseq' = incs
    /\ seen' = seen \cup {incs}
    /\ pc' = "L81"
    /\ UNCHANGED <<isr_vars, shared_vars, usb_vars, kbd_vars, rig_vars>>
    /\ UNCHANGED <<release, i, tmp, keyname, curr_mod>>
    /\ UNCHANGED <<hist, pubs, incs, c_src, tmp_src, key_src, used, vals,
                   decoded, taps, passes, mod_before, calls>>

\* Line 81: bool release = c_data & 1;   (and size_t i = 0 of line 84)
ReadRelease ==
    /\ isr_pc = "idle" /\ pc = "L81"
    /\ release' = Released(c_data)
    /\ ReadsFrame
    /\ i' = 0
    /\ pc' = "L85"
    /\ UNCHANGED <<isr_vars, shared_vars, usb_vars, kbd_vars, rig_vars>>
    /\ UNCHANGED <<cctr, tmp, keyname, curr_mod>>
    /\ UNCHANGED <<hist, pubs, incs, c_src, tmp_src, key_src, cseq, seen, taps,
                   passes, mod_before, calls>>

\* Lines 84-91: one iteration of the modifier loop.
ModStep ==
    /\ isr_pc = "idle" /\ pc = "L85"
    /\ LET e == ModMap[i + 1] IN
         curr_mod' = IF e.old = ScanCode(c_data)
                     THEN ModUpdate(curr_mod, release, e.n)
                     ELSE curr_mod
    /\ ReadsFrame
    /\ i' = i + 1
    /\ pc' = IF i + 1 < ModMapLen THEN "L85" ELSE "L93"
    /\ UNCHANGED <<isr_vars, shared_vars, usb_vars, kbd_vars, rig_vars>>
    /\ UNCHANGED <<cctr, release, tmp, keyname>>
    /\ UNCHANGED <<hist, pubs, incs, c_src, tmp_src, key_src, cseq, seen, taps,
                   passes, mod_before, calls>>

\* Line 93: Keyboard.set_modifier(curr_mod & 0xff);
SetModifier ==
    /\ isr_pc = "idle" /\ pc = "L93"
    /\ kb_mod' = BitAnd(curr_mod, ByteMask)
    /\ calls' = Append(calls, <<"set_modifier", BitAnd(curr_mod, ByteMask)>>)
    /\ pc' = "L94"
    /\ UNCHANGED <<isr_vars, shared_vars, kbd_vars, rig_vars, kb_key1, host>>
    /\ UNCHANGED <<cctr, release, i, tmp, keyname, curr_mod>>
    /\ UNCHANGED <<hist, pubs, incs, c_src, tmp_src, key_src, cseq, seen, used,
                   vals, decoded, taps, passes, mod_before>>

\* Keyboard.send_now() at `at`, continuing at `next`.
SendNow(at, next) ==
    /\ isr_pc = "idle" /\ pc = at
    /\ host' = Report(kb_mod, kb_key1)
    /\ calls' = Append(calls, <<"send_now">>)
    /\ pc' = next
    /\ UNCHANGED <<isr_vars, shared_vars, kbd_vars, rig_vars, kb_mod, kb_key1>>
    /\ UNCHANGED <<cctr, release, i, tmp, keyname, curr_mod>>
    /\ UNCHANGED <<hist, pubs, incs, c_src, tmp_src, key_src, cseq, seen, used,
                   vals, decoded, taps, passes, mod_before>>

\* SendModifier with the send_now() of line 94 left out.
SendModifierMissing ==
    /\ isr_pc = "idle" /\ pc = "L94"
    /\ pc' = "L97"
    /\ UNCHANGED <<isr_vars, shared_vars, usb_vars, kbd_vars, rig_vars, hist_vars>>
    /\ UNCHANGED <<cctr, release, i, tmp, keyname, curr_mod>>

\* Line 94: Keyboard.send_now();
SendModifier == SendNow("L94", "L97")

\* CheckRelease with the return of line 97 left out.
CheckReleaseNoReturn ==
    /\ isr_pc = "idle" /\ pc = "L97"
    /\ pc' = "L99"
    /\ UNCHANGED <<isr_vars, shared_vars, usb_vars, kbd_vars, rig_vars, hist_vars>>
    /\ UNCHANGED <<cctr, release, i, tmp, keyname, curr_mod>>

\* Line 97: if (release) return;
CheckRelease ==
    /\ isr_pc = "idle" /\ pc = "L97"
    /\ pc' = IF release THEN "L116" ELSE "L99"
    /\ UNCHANGED <<isr_vars, shared_vars, usb_vars, kbd_vars, rig_vars, hist_vars>>
    /\ UNCHANGED <<cctr, release, i, tmp, keyname, curr_mod>>

\* Line 99, the load: c_data & 0xffe into a register.
MaskLoad ==
    /\ isr_pc = "idle" /\ pc = "L99"
    /\ tmp' = ScanCode(c_data)
    /\ tmp_src' = c_src
    /\ ReadsFrame
    /\ pc' = "L99w"
    /\ UNCHANGED <<isr_vars, shared_vars, usb_vars, kbd_vars, rig_vars>>
    /\ UNCHANGED <<cctr, release, i, keyname, curr_mod>>
    /\ UNCHANGED <<hist, pubs, incs, c_src, key_src, cseq, seen, taps, passes,
                   mod_before, calls>>

\* Line 99, the store: c_data = <register>;   (and uint8_t keyname = 0;
\* size_t i = 0 of lines 100 and 103)
MaskStore ==
    /\ isr_pc = "idle" /\ pc = "L99w"
    /\ c_data' = tmp
    /\ c_src' = tmp_src
    /\ keyname' = 0
    /\ i' = 0
    /\ pc' = "L104"
    /\ UNCHANGED <<isr_vars, ctr, usb_vars, kbd_vars, rig_vars>>
    /\ UNCHANGED <<cctr, release, tmp, curr_mod>>
    /\ UNCHANGED <<hist, pubs, incs, tmp_src, key_src, cseq, seen, used, vals,
                   decoded, taps, passes, mod_before, calls>>

\* MapStep with the break of line 106 left out: the search goes on after a
\* match.
MapStepNoBreak ==
    /\ isr_pc = "idle" /\ pc = "L104"
    /\ LET e == Map[i + 1] IN
         IF e.old = c_data
         THEN /\ keyname' = e.n % (ByteMask + 1)
              /\ key_src' = c_src
         ELSE /\ keyname' = keyname
              /\ key_src' = key_src
    /\ i' = i + 1
    /\ pc' = IF i + 1 < MapLen THEN "L104" ELSE "L110"
    /\ ReadsFrame
    /\ UNCHANGED <<isr_vars, shared_vars, usb_vars, kbd_vars, rig_vars>>
    /\ UNCHANGED <<cctr, release, tmp, curr_mod>>
    /\ UNCHANGED <<hist, pubs, incs, c_src, tmp_src, cseq, seen, taps, passes,
                   mod_before, calls>>

\* Lines 103-108: one iteration of the search in xt_kb_map.
MapStep ==
    /\ isr_pc = "idle" /\ pc = "L104"
    /\ LET e == Map[i + 1] IN
         IF e.old = c_data
         THEN /\ keyname' = e.n % (ByteMask + 1)
              /\ key_src' = c_src
              /\ i' = i
              /\ pc' = "L110"
         ELSE /\ keyname' = keyname
              /\ key_src' = key_src
              /\ i' = i + 1
              /\ pc' = IF i + 1 < MapLen THEN "L104" ELSE "L110"
    /\ ReadsFrame
    /\ UNCHANGED <<isr_vars, shared_vars, usb_vars, kbd_vars, rig_vars>>
    /\ UNCHANGED <<cctr, release, tmp, curr_mod>>
    /\ UNCHANGED <<hist, pubs, incs, c_src, tmp_src, cseq, seen, taps, passes,
                   mod_before, calls>>

\* CheckKey with the test of line 110 left out.
CheckKeyAlways ==
    /\ isr_pc = "idle" /\ pc = "L110"
    /\ pc' = "L111"
    /\ UNCHANGED <<isr_vars, shared_vars, usb_vars, kbd_vars, rig_vars, hist_vars>>
    /\ UNCHANGED <<cctr, release, i, tmp, keyname, curr_mod>>

\* Line 110: if (keyname)
CheckKey ==
    /\ isr_pc = "idle" /\ pc = "L110"
    /\ pc' = IF keyname # 0 THEN "L111" ELSE "L116"
    /\ UNCHANGED <<isr_vars, shared_vars, usb_vars, kbd_vars, rig_vars, hist_vars>>
    /\ UNCHANGED <<cctr, release, i, tmp, keyname, curr_mod>>

\* Keyboard.set_key1(k) at `at`, continuing at `next`.
SetKey1(at, next, k) ==
    /\ isr_pc = "idle" /\ pc = at
    /\ kb_key1' = k
    /\ calls' = Append(calls, <<"set_key1", k>>)
    /\ pc' = next
    /\ UNCHANGED <<isr_vars, shared_vars, kbd_vars, rig_vars, kb_mod, host>>
    /\ UNCHANGED <<cctr, release, i, tmp, keyname, curr_mod>>
    /\ UNCHANGED <<hist, pubs, incs, c_src, tmp_src, key_src, cseq, seen, used,
                   vals, decoded, passes, mod_before>>

\* Line 111: Keyboard.set_key1(keyname);
PressKey ==
    /\ SetKey1("L111", "L112", keyname)
    /\ taps' = IF key_src = 0 THEN taps ELSE [taps EXCEPT ![key_src] = @ + 1]

\* Line 112: Keyboard.send_now();
SendPress == SendNow("L112", "L113") /\ UNCHANGED taps

\* Line 113: Keyboard.set_key1(0);
ReleaseKey == SetKey1("L113", "L114", 0) /\ UNCHANGED taps

\* SendRelease with the send_now() of line 114 left out.
SendReleaseMissing ==
    /\ isr_pc = "idle" /\ pc = "L114"
    /\ pc' = "L116"
    /\ UNCHANGED <<isr_vars, shared_vars, usb_vars, kbd_vars, rig_vars, hist_vars>>
    /\ UNCHANGED <<cctr, release, i, tmp, keyname, curr_mod>>

\* Line 114: Keyboard.send_now();
SendRelease == SendNow("L114", "L116") /\ UNCHANGED taps

\* Line 116 and line 97: loop() returns and is called again; its automatic
\* variables are gone.
Return ==
    /\ isr_pc = "idle" /\ pc = "L116"
    /\ pc' = "L77"
    /\ release' = FALSE /\ i' = 0 /\ tmp' = 0 /\ keyname' = 0
    /\ tmp_src' = 0 /\ key_src' = 0
    /\ used' = {} /\ vals' = {} /\ calls' = <<>>
    /\ mod_before' = curr_mod
    /\ passes' = passes + 1
    /\ UNCHANGED <<isr_vars, shared_vars, usb_vars, kbd_vars, rig_vars>>
    /\ UNCHANGED <<cctr, curr_mod>>
    /\ UNCHANGED <<hist, pubs, incs, c_src, cseq, seen, decoded, taps>>

Loop ==
    \/ Wait \/ StoreCounter \/ ReadRelease \/ ModStep \/ SetModifier
    \/ SendModifier \/ CheckRelease \/ MaskLoad \/ MaskStore \/ MapStep
    \/ CheckKey \/ PressKey \/ SendPress \/ ReleaseKey \/ SendRelease
    \/ Return

Next == Isr \/ Loop

\* From power-on, clock_isr preempting loop() anywhere.
Spec == Init /\ [][Next]_vars

\* The same, with modifiers already held.
SpecHeld == InitHeld /\ [][Next]_vars

\* The same, with the counter two frames short of INT_MAX.
SpecWrap == InitWrap /\ [][Next]_vars

\* One frame of any ten samples.
SpecAny == InitAny /\ [][Next]_vars

\* One frame, in a build whose tables list a scan code twice.
SpecDup == InitDup /\ [][Next]_vars

\* The same as Spec, with loop() always scheduled again and clock_isr always
\* running to its end: an interrupt returns, and nothing else ever suspends
\* loop().  The keyboard may stop sending at any time.
SpecFair ==
    Spec /\ WF_vars(Loop) /\ WF_vars(IsrPublish \/ IsrCount \/ IsrReset)


\* ============================================================ properties

\* The value clock_isr stored in c_data last (0 before the first frame).
LastPublished == IF pubs = <<>> THEN 0 ELSE pubs[Len(pubs)]

\* C1: every frame a pass of loop() reads from c_data was published with a
\* counter value that loop() has stored in cctr, in this pass or an earlier
\* one.
C1_DecodesOnlyObservedFrames == used \subseteq seen

\* C2: a pass of loop() that stored counter value n in cctr reads from
\* c_data the n-th published frame or a later one, never a value that comes
\* from an earlier frame.
C2_FrameNotOlderThanCounter == \A t \in used : t >= cseq

\* C3: c_data always holds the value clock_isr published last; no statement
\* of loop() changes it.
C3_FrameKeptUntilNextPublish == c_data = LastPublished

\* C4: all the loads of c_data of one pass of loop() see one frame, the one
\* published with the counter value the pass stored in cctr.
C4_OnePassOneFrame == Cardinality(used) <= 1 /\ used \subseteq {cseq}

\* C5: no published frame is read by more than one pass of loop(), no frame
\* yields more than one key press, and no more passes have returned than
\* frames were published.
C5_FrameConsumedAtMostOnce ==
    /\ \A k \in 1..Len(pubs) : decoded[k] <= 1 /\ taps[k] <= 1
    /\ passes <= Len(pubs)

\* More frames than MaxEdges clock edges can carry.
FramesBound == MaxEdges \div FrameBits + 1

\* C6: whenever ctr differs from cctr, with k frames counted so far, a pass
\* of loop() that stored the counter of frame k or of a later frame in cctr
\* sends its set-modifiers report; frames may share a pass.
C6_NoMissedTransition ==
    \A k \in 1..FramesBound :
        (ctr # cctr /\ incs = k) ~>
            (/\ pc = "L97"
             /\ cseq >= k
             /\ calls = <<<<"set_modifier", kb_mod>>, <<"send_now">>>>)

\* Two frames were published before loop() stored the counter, and the one
\* pass that covers both has sent its report.
C6_Witness ==
    /\ pc = "L97" /\ cseq = 2 /\ seen = {2}
    /\ host.mod = kb_mod /\ Len(calls) = 2

\* The integer whose binary digits, most significant first, are s.
RECURSIVE BigEndianFrom(_, _)
BigEndianFrom(s, k) ==
    IF k > Len(s) THEN 0
    ELSE s[k] * Pow2(Len(s) - k) + BigEndianFrom(s, k + 1)

\* The samples of edges 10(k-1)+1 .. 10k.
Group(k) == SubSeq(hist, FrameBits * (k - 1) + 1, FrameBits * k)

\* C7: between invocations of clock_isr, after e edges exactly e div 10
\* frames have been published and counted, and the k-th published value is
\* the big-endian integer of the samples of edges 10(k-1)+1 .. 10k.
C7_FramePerTenEdges ==
    isr_pc = "idle" =>
        /\ Len(pubs) = Len(hist) \div FrameBits
        /\ incs = Len(hist) \div FrameBits
        /\ ctr = incs
        /\ \A k \in 1..Len(pubs) : pubs[k] = BigEndianFrom(Group(k), 1)

\* Twenty edges have produced KEY_A pressed and then left-ctrl released.
C7_Witness ==
    /\ isr_pc = "idle" /\ Len(hist) = 2 * FrameBits
    /\ pubs = <<376, 441>> /\ ctr = 2

\* C8: no step makes ctr smaller, and a step that changes ctr is the ctr++
\* of clock_isr and adds exactly 1.
C8_CounterMonotonic ==
    [][/\ ctr' >= ctr
       /\ (ctr' # ctr => isr_pc = "L52" /\ ctr' - 1 = ctr)]_vars

\* C9: clock_isr never counts a frame before it has stored it: ctr has
\* been incremented as often as c_data was stored by clock_isr, one time less
\* between the two statements, and when ctr++ has run c_data holds the frame
\* it counts.
C9_CounterMatchesPublishes ==
    /\ incs <= Len(pubs)
    /\ Len(pubs) <= incs + 1
    /\ (isr_pc = "idle" => incs = Len(pubs) /\ ctr = incs)
    /\ (isr_pc = "L53" => c_data = pubs[incs] /\ c_src = incs)

\* clock_isr has just counted its second frame, in the middle of a pass of
\* loop().
C9_Witness == isr_pc = "L53" /\ incs = 2 /\ pc \notin {"L77", "L79"}

\* The flag the modifier table gives scan code sc (0 when it has none).
ModFlag(sc) ==
    IF \E j \in 1..Len(xt_kb_modmap) : xt_kb_modmap[j].old = sc
    THEN xt_kb_modmap[CHOOSE j \in 1..Len(xt_kb_modmap) :
                          xt_kb_modmap[j].old = sc].n
    ELSE 0

\* C10: when a pass whose loads of c_data all returned the frame f of a
\* modifier key has run the modifier loop, the key's flag is set in curr_mod
\* if f is a press and clear if f is a release, the other flags are as
\* before the pass, and a press of a modifier that was already held leaves
\* curr_mod as it was.
C10_ModifierPressRelease ==
    \A f \in ModFrames :
        (pc = "L93" /\ vals = {f}) =>
            LET n == ModFlag(f - (f % 2)) IN
            /\ n # 0
            /\ BitAnd(curr_mod, n) = (IF f % 2 = 1 THEN 0 ELSE n)
            /\ BitAnd(curr_mod, ByteMask - n) = BitAnd(mod_before, ByteMask - n)
            /\ (f % 2 = 0 /\ BitAnd(mod_before, n) = n => curr_mod = mod_before)

\* Left ctrl (0x1B8) is pressed again while it, left shift and right shift
\* are held.
C10_Witness ==
    /\ pc = "L93" /\ vals = {440}
    /\ mod_before = 35 /\ curr_mod = 35

\* Every value of c_data this pass has read is a frame of no modifier key.
NoModifierRead ==
    vals # {} /\ \A v \in vals : ModFlag(v - (v % 2)) = 0

\* C11: a pass that reads no modifier frame leaves curr_mod as it was when
\* the pass began, its set-modifiers call carries that value, and so does the
\* report its send_now delivers.
C11_NonModifierKeepsState ==
    NoModifierRead =>
        /\ curr_mod = mod_before
        /\ (calls # <<>> => calls[1] = <<"set_modifier", mod_before>>)
        /\ (Len(calls) >= 2 => host.mod = mod_before)

\* KEY_A (0x178) was pressed while every modifier was held, and the pass is
\* over.
C11_Witness ==
    /\ pc = "L116" /\ vals = {376} /\ mod_before = 39 /\ curr_mod = 39
    /\ Len(calls) = 6 /\ calls[1] = <<"set_modifier", 39>>

\* C12: the Keyboard calls of every pass begin with one set_modifier of the
\* current curr_mod and the send_now that flushes it; no other set_modifier
\* follows, so every set_key1 comes after them; and no pass gets past line
\* 94 without both.
C12_ModifierReportFirst ==
    /\ (pc \in {"L77", "L79", "L81", "L85", "L93"} => calls = <<>>)
    /\ (pc = "L94" => Len(calls) = 1)
    /\ (pc \notin {"L77", "L79", "L81", "L85", "L93", "L94"} => Len(calls) >= 2)
    /\ (Len(calls) >= 1 => calls[1] = <<"set_modifier", BitAnd(curr_mod, ByteMask)>>)
    /\ (Len(calls) >= 2 => calls[2] = <<"send_now">>)
    /\ (Len(calls) = 2 => host.mod = BitAnd(curr_mod, ByteMask))
    /\ \A j \in 2..Len(calls) : calls[j][1] # "set_modifier"

\* Left ctrl was pressed, then KEY_A: the pass for KEY_A reported ctrl held
\* before it sent the key.
C12_Witness ==
    /\ pc = "L116" /\ pubs = <<440, 376>> /\ vals = {376}
    /\ calls = << <<"set_modifier", 1>>, <<"send_now">>, <<"set_key1", 4>>,
                  <<"send_now">>, <<"set_key1", 0>>, <<"send_now">> >>

\* The keycode of the first entry of xt_kb_map for scan code sc (0 when it
\* has none).
RegKey(sc) ==
    LET J == { j \in 1..Len(xt_kb_map) : xt_kb_map[j].old = sc }
    IN  IF J = {} THEN 0
        ELSE xt_kb_map[CHOOSE j \in J : \A k \in J : j <= k].n

\* The pass for the only frame published so far is over: no other frame
\* can have interfered with it.
PassOver == pc = "L116" /\ Len(pubs) = 1 /\ used = {1}
PassFrame == pubs[1]

\* The Keyboard calls of a pass that only resynchronises modifiers m.
ResyncOnly(m) == << <<"set_modifier", m>>, <<"send_now">> >>

\* The Keyboard calls of a pass that resynchronises m and taps key k.
ResyncAndTap(m, k) ==
    ResyncOnly(m) \o << <<"set_key1", k>>, <<"send_now">>,
                        <<"set_key1", 0>>, <<"send_now">> >>

\* C13: the pass for a frame whose scan code xt_kb_map maps to a keycode
\* other than 0 makes, after the modifier resync, the calls set_key1(keycode),
\* send_now, set_key1(0), send_now when the frame is a press, and none when
\* it is a release; curr_mod is unchanged.
C13_MappedKeyTap ==
    (PassOver /\ RegKey(PassFrame - (PassFrame % 2)) # 0) =>
        /\ curr_mod = mod_before
        /\ calls = IF PassFrame % 2 = 0
                   THEN ResyncAndTap(mod_before, RegKey(PassFrame))
                   ELSE ResyncOnly(mod_before)
        /\ host = Report(mod_before, 0)

\* Frame 0x178 pressed with no modifier held: KEY_A is tapped.
C13_Witness ==
    /\ PassOver /\ PassFrame = 376 /\ mod_before = 0
    /\ calls = ResyncAndTap(0, 4) /\ taps = <<1>>

\* C14: the pass for a frame whose scan code is in neither table, or that
\* xt_kb_map maps to 0, makes exactly the calls of the modifier resync,
\* whether the frame is a press or a release, and leaves curr_mod unchanged.
C14_UnmappedOnlyResync ==
    (/\ PassOver
     /\ ModFlag(PassFrame - (PassFrame % 2)) = 0
     /\ RegKey(PassFrame - (PassFrame % 2)) = 0) =>
        /\ curr_mod = mod_before
        /\ calls = ResyncOnly(mod_before)
        /\ kb_key1 = 0
        /\ host = Report(mod_before, 0)

\* Frame 0x1D4, which xt_kb_map maps to 0, was pressed with both shifts
\* held: the search stopped at its entry and nothing but the resync was sent.
C14_Witness ==
    /\ PassOver /\ PassFrame = 468 /\ mod_before = 34
    /\ xt_kb_map[i + 1].old = 468 /\ keyname = 0
    /\ calls = ResyncOnly(34)

\* The pass that is over read frame k and nothing else, and no other pass
\* has read frame k.
OwnPass(k) == pc = "L116" /\ used = {k} /\ decoded[k] = 1

\* Modifier byte m after the modifier frame f: its flag set by a press,
\* cleared by a release.
HeldAfter(m, f) ==
    LET n == ModFlag(f - (f % 2))
        has == (m \div n) % 2 = 1
    IN  IF f % 2 = 0 THEN (IF has THEN m ELSE m + n)
        ELSE (IF has THEN m - n ELSE m)

\* C15: a pass that processes the frame of a modifier key, pressed or
\* released, makes no set_key1 call: its calls are set_modifier with the
\* key's flag set (press) or cleared (release), and send_now.
C15_ModifierNoKeyReport ==
    \A k \in 1..Len(pubs) :
        (OwnPass(k) /\ pubs[k] \in ModFrames) =>
            /\ calls = ResyncOnly(HeldAfter(mod_before, pubs[k]))
            /\ taps[k] = 0
            /\ host = Report(HeldAfter(mod_before, pubs[k]), 0)

\* Frame 0x1B8 was pressed and released, each in its own pass: the first
\* pass left ctrl held, the second reported it clear, no key was sent.
C15_Witness ==
    /\ pubs = <<440, 441>> /\ passes = 1 /\ OwnPass(2) /\ decoded = <<1, 1>>
    /\ mod_before = 1 /\ calls = ResyncOnly(0) /\ taps = <<0, 0>>

\* C16: between invocations of clock_isr the indicator is high exactly when
\* 1 to 9 bits of a frame have been received; it is low when none has, at
\* power-on and after every completed frame.
C16_LedWhileAssembling ==
    isr_pc = "idle" =>
        /\ r_len \in 0..(FrameBits - 1)
        /\ (led = HIGH) = (r_len \in 1..(FrameBits - 1))
        /\ (Len(hist) % FrameBits = 0 => r_len = 0 /\ led = LOW)

\* Nine bits of the second frame are in: the indicator went low after the
\* first frame and is high again.
C16_Witness ==
    /\ isr_pc = "idle" /\ Len(pubs) = 1 /\ r_len = 9 /\ led = HIGH

\* C17: the host sees a key down only between the send_now of line 112 and
\* the send_now of line 114; whenever loop() is at its wait, or past line
\* 114, the key slot and the last report hold no key, and every
\* set_key1(k) of a pass is followed in the pass by set_key1(0), send_now.
C17_NoKeyHeldAcrossPasses ==
    /\ (host.key # 0 => pc \in {"L113", "L114"})
    /\ (kb_key1 # 0 => pc \in {"L112", "L113"})
    /\ (pc \in {"L77", "L116"} => host.key = 0 /\ kb_key1 = 0)
    /\ (pc = "L116" =>
          \A j \in 1..Len(calls) :
              (calls[j][1] = "set_key1" /\ calls[j][2] # 0) =>
                  /\ j + 3 <= Len(calls)
                  /\ calls[j + 2] = <<"set_key1", 0>>
                  /\ calls[j + 3] = <<"send_now">>)

\* A key was tapped, the pass has returned and loop() waits: the host sees
\* no key.
C17_Witness ==
    /\ pc = "L77" /\ passes = 1 /\ taps = <<1>>
    /\ host.key = 0 /\ kb_key1 = 0

\* The modifier flags, one per bit of the modifier byte.
Flags == {1, 2, 4, 8, 16, 32, 64, 128}
Has(x, b) == BitAnd(x, b) # 0

\* The entries of the table in use that carry scan code sc, and the first
\* of a set of entries.
ModHits(sc) == { j \in 1..Len(ModMap) : ModMap[j].old = sc }
MapHits(sc) == { j \in 1..Len(Map) : Map[j].old = sc }
FirstOf(J) == CHOOSE j \in J : \A k \in J : j <= k

\* The calls of the pass for frame f under the regular table: the tap of
\* the first entry for its scan code when f is a press, the resync alone
\* otherwise.
FirstKeyCalls(f) ==
    LET J == MapHits(f - (f % 2))
        k == IF J = {} THEN 0 ELSE Map[FirstOf(J)].n % (ByteMask + 1)
        m == BitAnd(curr_mod, ByteMask)
    IN  IF f % 2 = 0 /\ k # 0 THEN ResyncAndTap(m, k) ELSE ResyncOnly(m)

IsrStep == isr_pc # "idle" \/ Len(hist') # Len(hist)

\* C19: a step of clock_isr leaves curr_mod, cctr and the transport's
\* report state as they are; a step of loop() leaves data, r_len, the LED
\* and ctr as they are.
C19_SingleOwner ==
    [][/\ IsrStep => UNCHANGED <<curr_mod, cctr, kb_mod, kb_key1, host>>
       /\ ~IsrStep => UNCHANGED <<data, r_len, led, ctr>>]_vars

\* loop() has changed curr_mod, cctr and the report while clock_isr was
\* assembling the next frame.
C19_Witness ==
    /\ isr_pc = "idle" /\ r_len = 3 /\ led = HIGH /\ ctr = 1
    /\ pc = "L116" /\ cctr = 1 /\ curr_mod = 1 /\ host = Report(1, 0)

\* C20: between invocations of clock_isr, r_len is in 0..9, data is below
\* 2^r_len (0 when r_len is 0) and c_data, like every frame published, is
\* below 2^10, so the mask 0xffe takes the release bit off it and nothing
\* else.
C20_RegisterRanges ==
    isr_pc = "idle" =>
        /\ r_len \in 0..(FrameBits - 1)
        /\ data \in 0..(Pow2(r_len) - 1)
        /\ (r_len = 0 => data = 0)
        /\ c_data \in 0..(Pow2(FrameBits) - 1)
        /\ ScanCode(c_data) = c_data - (c_data % 2)
        /\ \A k \in 1..Len(pubs) :
              /\ pubs[k] \in 0..(Pow2(FrameBits) - 1)
              /\ ScanCode(pubs[k]) = pubs[k] - (pubs[k] % 2)

\* Ten 1 samples were taken: the largest frame, 0x3FF, is published and
\* the register is empty again.
C20_Witness ==
    /\ isr_pc = "idle" /\ Len(hist) = FrameBits
    /\ pubs = <<1023>> /\ c_data = 1023
    /\ r_len = 0 /\ data = 0

====
